---- MODULE Spec2Model ----
(***************************************************************************)
(* Model of src/api_server.py: the /compare and /evaluate handlers and the *)
(* mock scorer evaluate_answer_with_ai.                                    *)
(*                                                                         *)
(* Numbers.  Scores are floats in the source; here a score is an integer   *)
(* number of hundredths (0.70 is 70) and a mean is the exact rational      *)
(* <<numerator, denominator>> in lowest terms, so that "sum / len" is a    *)
(* real division and two means are equal only when the quotients are.      *)
(* Floating-point rounding is not modelled.                                *)
(*                                                                         *)
(* Left out because no property below reads them: request_id (uuid4),      *)
(* timestamp, processing_time and improvement_suggestions (random.sample).  *)
(***************************************************************************)
EXTENDS Integers, Sequences, FiniteSets, TLC

VARIABLES
    pc,                 \* "idle": waiting for a request; "done": a handler has answered
    endpoint,           \* "none" | "compare" | "evaluate": the handler that answered
    request,            \* the ComparisonRequest that handler was given or built
    evaluation_results, \* the list the loop of compare_answers had built when it ended
    raw_scores,         \* per completed scorer call, the five values before min(.., 1.0)
    scorer_calls,       \* number of calls of evaluate_answer_with_ai the handler made
    response            \* what the handler returned (or the HTTP error it raised)

vars == <<pc, endpoint, request, evaluation_results, raw_scores, scorer_calls, response>>

---------------------------------------------------------------------------
(* Bounds of the model *)

\* longest answers list of the requests with varied ids, contents and draws
MaxAnswers == 3

\* how far beyond max_items the answer lists of the boundary requests go
Beyond == 1

---------------------------------------------------------------------------
(* Program constants, in hundredths where they are scores *)

MinItems == 2
MaxItems == 10
BaseLow == 60
BaseHigh == 90
LongLength == 100
LongBonus == 5
ExplainBonus == 3
ScoreCap == 100
StrongThreshold == 70
WeakThreshold == 60
\* confidence=0.728, in thousandths
Confidence == 728
RankingConfidence == 728
EvaluationReliability == 724

Archetypes == <<"clarity", "accuracy", "completeness", "adaptability", "structure">>

\* half-width of random.uniform(-w, w) added to base_score, per archetype
Spread == <<10, 5, 8, 5, 7>>

Explanations ==
    << "Clear and well-structured explanation",
       "Factually sound with good reasoning",
       "Covers key aspects of the problem",
       "Applies well to different contexts",
       "Well-organized and logical flow" >>

---------------------------------------------------------------------------
(* Arithmetic helpers *)

RECURSIVE GCD(_, _)
GCD(a, b) == IF b = 0 THEN a ELSE GCD(b, a % b)

\* n / d as an exact rational in lowest terms (n >= 0, d > 0)
Rat(n, d) == LET g == GCD(n, d) IN <<n \div g, d \div g>>

RatGE(x, y) == x[1] * y[2] >= y[1] * x[2]
RatGT(x, y) == x[1] * y[2] > y[1] * x[2]

RECURSIVE SeqSum(_)
SeqSum(s) == IF s = <<>> THEN 0 ELSE Head(s) + SeqSum(Tail(s))

Min(a, b) == IF a <= b THEN a ELSE b

---------------------------------------------------------------------------
(* Request models *)

\* Optional[str]: <<>> is None, <<s>> is the string s
None == <<>>
Some(s) == <<s>>

\* a content string, kept as what the scorer reads of it: its length and
\* whether it contains "?" or "because"
Content(text, length, marks) == [text |-> text, len |-> length, marks |-> marks]

AnswerInput(content, id) == [content |-> content, id |-> id]

\* mutant of ValidAnswers: both limits taken as exclusive
ValidAnswersExclusive(answers) == Len(answers) > MinItems /\ Len(answers) < MaxItems

\* Field(..., min_items=2, max_items=10)
ValidAnswers(answers) == Len(answers) >= MinItems /\ Len(answers) <= MaxItems

\* pydantic construction: the model, or a ValidationError
ComparisonRequest(problem, answers, evaluation_type, context) ==
    IF ValidAnswers(answers)
    THEN [valid |-> TRUE, problem |-> problem, answers |-> answers,
          evaluation_type |-> evaluation_type, context |-> context]
    ELSE [valid |-> FALSE, problem |-> problem, answers |-> answers,
          evaluation_type |-> evaluation_type, context |-> context]

NoRequest == [valid |-> FALSE, problem |-> "", answers |-> <<>>,
              evaluation_type |-> "", context |-> None]

NoResponse == [status |-> 0]

---------------------------------------------------------------------------
(* evaluate_answer_with_ai: the mock scorer *)

\* One outcome of the scorer's random draws: base is random.uniform(0.6, 0.9)
\* and delta[k] is the random.uniform(-w, w) of archetype k.
Draw(base, delta) == [base |-> base, delta |-> delta]

\* base_score after the two bonuses
BaseScore(answer, draw) ==
    draw.base
    + (IF answer.len > LongLength THEN LongBonus ELSE 0)
    + (IF answer.marks # {} THEN ExplainBonus ELSE 0)

\* base_score + random.uniform(-w, w), before the clamp
RawScores(answer, draw) ==
    [k \in 1..Len(Archetypes) |-> BaseScore(answer, draw) + draw.delta[k]]

\* score = min(raw, 1.0)
ClampScore(raw) == Min(raw, ScoreCap)

ArchetypeScores(answer, draw) ==
    [k \in 1..Len(Archetypes) |->
        [archetype   |-> Archetypes[k],
         score       |-> ClampScore(RawScores(answer, draw)[k]),
         explanation |-> Explanations[k]]]

ScoreValues(archetype_scores) ==
    [k \in 1..Len(archetype_scores) |-> archetype_scores[k].score]

\* mutant of OverallScore: the sum divided by one less than the count
OverallScoreShortCount(archetype_scores) ==
    Rat(SeqSum(ScoreValues(archetype_scores)), Len(archetype_scores) - 1)

\* sum(score.score for score in archetype_scores) / len(archetype_scores)
OverallScore(archetype_scores) ==
    Rat(SeqSum(ScoreValues(archetype_scores)), Len(archetype_scores))

\* mutant of IsStrength: the threshold itself counts as strong
IsStrengthInclusive(score) == score >= StrongThreshold

IsStrength(score) == score > StrongThreshold

IsWeakness(score) == score < WeakThreshold

\* f"Strong {archetype} ({score:.2f})": a score in hundredths already has two
\* decimals, so the rendering keeps its value
Rendered(label, s) == [label |-> label, archetype |-> s.archetype, shown |-> s.score]

Strengths(archetype_scores) ==
    LET kept == SelectSeq(archetype_scores, LAMBDA s : IsStrength(s.score))
    IN  [k \in 1..Len(kept) |-> Rendered("Strong", kept[k])]

Weaknesses(archetype_scores) ==
    LET kept == SelectSeq(archetype_scores, LAMBDA s : IsWeakness(s.score))
    IN  [k \in 1..Len(kept) |-> Rendered("Could improve", kept[k])]

evaluate_answer_with_ai(problem, answer, context, draw) ==
    LET archetype_scores == ArchetypeScores(answer, draw)
    IN  [overall_score    |-> OverallScore(archetype_scores),
         archetype_scores |-> archetype_scores,
         strengths        |-> Strengths(archetype_scores),
         weaknesses       |-> Weaknesses(archetype_scores)]

---------------------------------------------------------------------------
(* compare_answers: building, sorting and summarising the results *)

\* f"answer_{i}", i zero-based
SynthId(i) == "answer_" \o ToString(i)

\* answer.id or f"answer_{i}": None and the empty string are both falsy
AnswerId(answer, i) ==
    IF answer.id # None /\ answer.id[1] # "" THEN answer.id[1] ELSE SynthId(i)

\* The EvaluationResult of the answer at zero-based position i.  The field
\* index is not a field of the source's model: it stands for the identity of
\* the Python object, so that two results equal in every field stay apart.
EvaluationResult(answer, i, ai_result) ==
    [index            |-> i,
     answer_id        |-> AnswerId(answer, i),
     content          |-> answer.content,
     overall_score    |-> ai_result.overall_score,
     ranking_position |-> 0,
     confidence       |-> Confidence,
     archetype_scores |-> ai_result.archetype_scores,
     strengths        |-> ai_result.strengths,
     weaknesses       |-> ai_result.weaknesses]

\* where list.sort puts x among the already sorted s: after every element
\* whose key is greater than or equal to x's (stable, descending)
RECURSIVE InsertDesc(_, _)
InsertDesc(s, x) ==
    IF s = <<>> THEN <<x>>
    ELSE IF RatGE(Head(s).overall_score, x.overall_score)
         THEN <<Head(s)>> \o InsertDesc(Tail(s), x)
         ELSE <<x>> \o s

RECURSIVE SortFrom(_, _)
SortFrom(sorted, rest) ==
    IF rest = <<>> THEN sorted
    ELSE SortFrom(InsertDesc(sorted, Head(rest)), Tail(rest))

Reverse(s) == [k \in 1..Len(s) |-> s[Len(s) + 1 - k]]

\* mutant of SortByScoreDesc: an ascending sort reversed, which turns ties round
SortByScoreAscReversed(results) == SortFrom(<<>>, Reverse(results))

\* evaluation_results.sort(key=lambda x: x.overall_score, reverse=True)
SortByScoreDesc(results) == SortFrom(<<>>, results)

\* mutant of RankingPosition: the zero-based index itself
RankingPositionZeroBased(i) == i

\* result.ranking_position = i + 1, i zero-based
RankingPosition(i) == i + 1

AssignRankings(results) ==
    [k \in 1..Len(results) |->
        [results[k] EXCEPT !.ranking_position = RankingPosition(k - 1)]]

\* evaluation_results[0].answer_id if evaluation_results else None
BestAnswer(results) == IF results # <<>> THEN Some(results[1].answer_id) ELSE None

RECURSIVE AllArchetypeScores(_)
AllArchetypeScores(results) ==
    IF results = <<>> THEN <<>>
    ELSE Head(results).archetype_scores \o AllArchetypeScores(Tail(results))

\* the list archetype_summary[archetype] holds after the first loop
CollectedScores(results, archetype) ==
    ScoreValues(SelectSeq(AllArchetypeScores(results),
                          LAMBDA s : s.archetype = archetype))

\* mutant of ArchetypeMean: the sum divided by the number of archetypes
ArchetypeMeanOverArchetypes(scores) == Rat(SeqSum(scores), Len(Archetypes))

\* sum(scores) / len(scores)
ArchetypeMean(scores) == Rat(SeqSum(scores), Len(scores))

ArchetypeSummary(results) ==
    LET all  == AllArchetypeScores(results)
        keys == {all[k].archetype : k \in 1..Len(all)}
    IN  [a \in keys |-> ArchetypeMean(CollectedScores(results, a))]

ConfidenceSummary(results) ==
    [average_confidence |->
        Rat(SeqSum([k \in 1..Len(results) |-> results[k].confidence]), Len(results)),
     ranking_confidence     |-> RankingConfidence,
     evaluation_reliability |-> EvaluationReliability]

\* the ComparisonResponse returned at the end of the try block
ComparisonResponse(req, results) ==
    LET ranked == AssignRankings(SortByScoreDesc(results))
    IN  [status             |-> 200,
         kind               |-> "ComparisonResponse",
         problem            |-> req.problem,
         evaluation_type    |-> req.evaluation_type,
         results            |-> ranked,
         best_answer        |-> BestAnswer(ranked),
         confidence_summary |-> ConfidenceSummary(ranked),
         archetype_summary  |-> ArchetypeSummary(ranked)]

\* raise HTTPException(status_code=500, detail=f"Evaluation failed: {str(e)}")
EvaluationFailedResponse(e) ==
    [status |-> 500, kind |-> "HTTPException", detail |-> <<"Evaluation failed: ", e>>]

\* the request never becomes a ComparisonRequest: FastAPI answers for pydantic
ValidationErrorResponse == [status |-> 422, kind |-> "ValidationError"]

\* the dict /evaluate returns from the comparison's result
SingleResponse(req, result) ==
    [status     |-> 200,
     kind       |-> "SingleEvaluation",
     problem    |-> req.problem,
     answer     |-> req.answers[1].content,
     evaluation |-> result.results[1]]

---------------------------------------------------------------------------
(* One run of the loop of compare_answers *)

\* What one call of the scorer does: it returns, having drawn `draw`, or it
\* raises e (the mock never does; the handler's except clause is for a scorer
\* that can).
Returns(draw) == [raises |-> FALSE, draw |-> draw, error |-> ""]
Raises(e) == [raises |-> TRUE, draw |-> Draw(0, <<>>), error |-> e]

\* the scorer calls of a request of n answers: n calls that return, or fewer
\* than n that return and then one that raises and ends the loop
ScorerRuns(n, draws, errors) ==
    {[k \in 1..n |-> Returns(f[k])] : f \in [1..n -> draws]}
    \cup UNION {{[k \in 1..j |-> IF k < j THEN Returns(f[k]) ELSE Raises(e)] :
                    f \in [1..(j - 1) -> draws], e \in errors} : j \in 1..n}

Raised(run) == run # <<>> /\ run[Len(run)].raises

Returned(run) == IF Raised(run) THEN Len(run) - 1 ELSE Len(run)

\* evaluation_results when the loop ends (by exhaustion or by the exception)
LoopResults(req, run) ==
    [k \in 1..Returned(run) |->
        EvaluationResult(req.answers[k], k - 1,
            evaluate_answer_with_ai(req.problem, req.answers[k].content,
                                    req.context, run[k].draw))]

LoopRawScores(req, run) ==
    [k \in 1..Returned(run) |-> RawScores(req.answers[k].content, run[k].draw)]

\* The body of compare_answers on a constructed request: the response it
\* returns, or the HTTPException its except clause raises.
compare_answers(req, run) ==
    IF Raised(run) THEN EvaluationFailedResponse(run[Len(run)].error)
    ELSE IF LoopResults(req, run) = <<>>
         THEN EvaluationFailedResponse("division by zero")
         ELSE ComparisonResponse(req, LoopResults(req, run))

\* The body of evaluate_single_answer: the request it builds is validated
\* like any other, and every exception becomes the same HTTPException.
evaluate_single_answer(problem, answer, context, run) ==
    LET comparison_request ==
            ComparisonRequest(problem, <<AnswerInput(answer, Some("single_answer"))>>,
                              "quick", context)
        result == compare_answers(comparison_request, run)
    IN  IF ~comparison_request.valid THEN EvaluationFailedResponse("ValidationError")
        ELSE IF result.status # 200 THEN EvaluationFailedResponse(result.detail)
        ELSE IF result.results # <<>> THEN SingleResponse(comparison_request, result)
        ELSE EvaluationFailedResponse("Evaluation failed")

---------------------------------------------------------------------------
(* Inputs *)

Problems == {"Explain gravity"}

ShortContent == Content("Gravity is a force.", 19, {})
LongContent == Content("long answer with a reason", 120, {"because"})
Contents == {ShortContent, LongContent}

Ids == {None, Some("answer_1")}

Answers == {AnswerInput(c, id) : c \in Contents, id \in Ids}

\* the bodies POSTed to /compare, before validation
Bodies(answer_lists) ==
    {[problem |-> p, answers |-> a] : p \in Problems, a \in answer_lists}

Requests == Bodies(UNION {[1..n -> Answers] : n \in 0..MaxAnswers})

\* lists of every length around both limits, of one plain answer without id
BoundaryRequests ==
    Bodies({[k \in 1..n |-> AnswerInput(ShortContent, None)] :
                n \in 0..(MaxItems + Beyond)})

AllLow == [k \in 1..Len(Spread) |-> 0 - Spread[k]]
AllHigh == [k \in 1..Len(Spread) |-> Spread[k]]
Mixed == [k \in 1..Len(Spread) |-> IF k \in {1, 3} THEN Spread[k] ELSE 0 - Spread[k]]

\* both ends of the base range, with the perturbations at their ends
Draws ==
    {Draw(BaseLow, AllLow), Draw(BaseLow, AllHigh),
     Draw(BaseHigh, Mixed), Draw(BaseHigh, AllHigh)}

BoundaryDraws == {Draw(BaseLow, AllLow), Draw(BaseHigh, AllHigh)}

ScorerErrors == {"scorer unavailable"}

---------------------------------------------------------------------------
(* The state machine *)

Init ==
    /\ pc = "idle"
    /\ endpoint = "none"
    /\ request = NoRequest
    /\ evaluation_results = <<>>
    /\ raw_scores = <<>>
    /\ scorer_calls = 0
    /\ response = NoResponse

\* POST /compare: the body is validated into a ComparisonRequest (a body that
\* fails never reaches the handler), then compare_answers runs to its end.
CompareAnswers(bodies, draws) ==
    /\ pc = "idle"
    /\ \E body \in bodies :
         LET req == ComparisonRequest(body.problem, body.answers, "comprehensive", None)
         IN  /\ request' = req
             /\ IF ~req.valid
                THEN /\ response' = ValidationErrorResponse
                     /\ evaluation_results' = <<>>
                     /\ raw_scores' = <<>>
                     /\ scorer_calls' = 0
                ELSE \E run \in ScorerRuns(Len(req.answers), draws, ScorerErrors) :
                     /\ response' = compare_answers(req, run)
                     /\ evaluation_results' = LoopResults(req, run)
                     /\ raw_scores' = LoopRawScores(req, run)
                     /\ scorer_calls' = Len(run)
    /\ endpoint' = "compare"
    /\ pc' = "done"

\* POST /evaluate
EvaluateSingleAnswer(draws) ==
    /\ pc = "idle"
    /\ \E problem \in Problems, answer \in Contents :
         LET req == ComparisonRequest(problem,
                        <<AnswerInput(answer, Some("single_answer"))>>, "quick", None)
         IN  /\ request' = req
             /\ IF ~req.valid
                THEN /\ response' = evaluate_single_answer(problem, answer, None, <<>>)
                     /\ evaluation_results' = <<>>
                     /\ raw_scores' = <<>>
                     /\ scorer_calls' = 0
                ELSE \E run \in ScorerRuns(Len(req.answers), draws, ScorerErrors) :
                     /\ response' = evaluate_single_answer(problem, answer, None, run)
                     /\ evaluation_results' = LoopResults(req, run)
                     /\ raw_scores' = LoopRawScores(req, run)
                     /\ scorer_calls' = Len(run)
    /\ endpoint' = "evaluate"
    /\ pc' = "done"

\* The handlers keep nothing between requests: the server waits for the next.
NextRequest ==
    /\ pc = "done"
    /\ pc' = "idle"
    /\ endpoint' = "none"
    /\ request' = NoRequest
    /\ evaluation_results' = <<>>
    /\ raw_scores' = <<>>
    /\ scorer_calls' = 0
    /\ response' = NoResponse

Next ==
    \/ CompareAnswers(Requests, Draws)
    \/ EvaluateSingleAnswer(Draws)
    \/ NextRequest

Spec == Init /\ [][Next]_vars

NextBoundary ==
    \/ CompareAnswers(BoundaryRequests, BoundaryDraws)
    \/ EvaluateSingleAnswer(BoundaryDraws)
    \/ NextRequest

\* the same handlers on answer lists of every length from 0 past max_items
SpecBoundary == Init /\ [][NextBoundary]_vars

---------------------------------------------------------------------------
(* Properties *)

\* /compare has returned a ComparisonResponse
ComparisonReturned ==
    pc = "done" /\ endpoint = "compare" /\ response.status = 200

\* /compare has answered a request whose scorer raised on its last call
ScorerRaised ==
    pc = "done" /\ endpoint = "compare" /\ scorer_calls > Len(evaluation_results)

NumAnswers == Len(request.answers)

\* the input answer a returned result was built from
InputOf(r) == request.answers[r.index + 1]

\* the score a result gives archetype a, summed over its entries for a
ScoreFor(r, a) ==
    SeqSum([j \in 1..Len(r.archetype_scores) |->
               IF r.archetype_scores[j].archetype = a
               THEN r.archetype_scores[j].score ELSE 0])

Has(r, a) == \E j \in 1..Len(r.archetype_scores) : r.archetype_scores[j].archetype = a

\* position of an archetype name in the fixed order
ArchetypeIndex(a) == CHOOSE k \in 1..Len(Archetypes) : Archetypes[k] = a

\* C1: in every ComparisonResponse the results are a permutation of the input
\* answers (every input position occurs exactly once, with its own content),
\* and results[k] has ranking_position k+1 (zero-based k): the positions are
\* exactly 1..N and none is left at the placeholder 0.
C1_RankingTotality ==
    ComparisonReturned =>
        LET rs == response.results
        IN  /\ Len(rs) = NumAnswers
            /\ \A i \in 0..(NumAnswers - 1) :
                   Cardinality({k \in 1..Len(rs) : rs[k].index = i}) = 1
            /\ \A k \in 1..Len(rs) :
                   /\ rs[k].content = InputOf(rs[k]).content
                   /\ rs[k].ranking_position = k
                   /\ rs[k].ranking_position # 0

\* three answers ranked in an order that is not the input order
C1_Witness ==
    /\ ComparisonReturned
    /\ NumAnswers = 3
    /\ response.results[1].index = 2
    /\ response.results[3].index = 0
    /\ response.results[3].ranking_position = 3

\* C2: in every ComparisonResponse the overall scores never increase along the
\* results, and of two results with exactly equal overall_score the one that
\* was earlier in the input has the smaller ranking_position.
C2_SortCorrectness ==
    ComparisonReturned =>
        LET rs == response.results
        IN  \A i, j \in 1..Len(rs) :
                /\ i < j => RatGE(rs[i].overall_score, rs[j].overall_score)
                /\ (rs[i].overall_score = rs[j].overall_score
                        /\ rs[i].index < rs[j].index)
                     => rs[i].ranking_position < rs[j].ranking_position

\* a tie between the first and the last input answer, below a later answer
\* that scored more
C2_Witness ==
    /\ ComparisonReturned
    /\ NumAnswers = 3
    /\ response.results[1].index = 1
    /\ response.results[2].index = 0
    /\ response.results[3].index = 2
    /\ response.results[2].overall_score = response.results[3].overall_score
    /\ RatGT(response.results[1].overall_score, response.results[2].overall_score)

\* C3: a /compare body with fewer than 2 or more than 10 answers is rejected
\* as invalid with no scorer call made and nothing evaluated; a body with 2 to
\* 10 answers is accepted, and returns a ComparisonResponse unless the scorer
\* raises.
C3_BoundaryRejection ==
    (pc = "done" /\ endpoint = "compare") =>
        /\ (NumAnswers < 2 \/ NumAnswers > 10) =>
               /\ response.kind = "ValidationError"
               /\ scorer_calls = 0
               /\ evaluation_results = <<>>
        /\ (NumAnswers >= 2 /\ NumAnswers <= 10) =>
               /\ response.kind # "ValidationError"
               /\ scorer_calls >= 1
               /\ ~ScorerRaised =>
                      /\ response.kind = "ComparisonResponse"
                      /\ scorer_calls = NumAnswers

\* eleven answers, rejected before any scorer call
C3_Witness ==
    /\ pc = "done" /\ endpoint = "compare"
    /\ NumAnswers = 11
    /\ response.kind = "ValidationError"
    /\ scorer_calls = 0

\* C4 (as claimed): when the scorer raises for a candidate, /compare answers
\* with a failure that carries that candidate's identifier, and with no
\* ComparisonResponse.
C4_FailureNamesCandidate ==
    ScorerRaised =>
        /\ response.kind # "ComparisonResponse"
        /\ \E k \in 1..Len(response.detail) :
               response.detail[k] =
                   AnswerId(request.answers[scorer_calls], scorer_calls - 1)

\* C5 (as claimed): /evaluate answers every problem and answer with
\* results[0] of a one-answer "quick" comparison: the evaluation of the
\* submitted answer, at ranking_position 1.
C5_SingleEvaluation ==
    (pc = "done" /\ endpoint = "evaluate") =>
        /\ request.evaluation_type = "quick"
        /\ NumAnswers = 1
        /\ response.kind = "SingleEvaluation"
        /\ response.evaluation.content = request.answers[1].content
        /\ response.evaluation.ranking_position = 1

\* C6: in every ComparisonResponse each result's overall_score is the sum of
\* that result's own archetype scores divided by their number.
C6_MeanCorrectness ==
    ComparisonReturned =>
        \A k \in 1..Len(response.results) :
            LET r == response.results[k]
                n == Len(r.archetype_scores)
                total == SeqSum([j \in 1..n |-> r.archetype_scores[j].score])
            IN  /\ n > 0
                /\ r.overall_score[2] > 0
                /\ r.overall_score[1] * n = total * r.overall_score[2]

\* results whose means differ, one of them not a whole number of hundredths
C6_Witness ==
    /\ ComparisonReturned
    /\ NumAnswers = 3
    /\ response.results[1].overall_score[2] # 1
    /\ response.results[1].overall_score # response.results[2].overall_score
    /\ response.results[2].overall_score # response.results[3].overall_score

\* C7: in every ComparisonResponse the keys of archetype_summary are exactly
\* the archetypes some result has a score for, and the value for archetype A
\* is the sum of the A-scores of the results that have A divided by the number
\* of those results.
C7_SummaryCorrectness ==
    ComparisonReturned =>
        LET rs == response.results
            present == UNION {{rs[k].archetype_scores[j].archetype :
                                  j \in 1..Len(rs[k].archetype_scores)} : k \in 1..Len(rs)}
        IN  /\ DOMAIN response.archetype_summary = present
            /\ \A a \in present :
                   LET having == {k \in 1..Len(rs) : Has(rs[k], a)}
                       total == SeqSum([k \in 1..Len(rs) |-> ScoreFor(rs[k], a)])
                       mean == response.archetype_summary[a]
                   IN  /\ mean[2] > 0
                       /\ mean[1] * Cardinality(having) = total * mean[2]

\* three results with three different clarity scores and a summary for each
\* of the five archetypes
C7_Witness ==
    /\ ComparisonReturned
    /\ NumAnswers = 3
    /\ Cardinality(DOMAIN response.archetype_summary) = 5
    /\ Cardinality({ScoreFor(response.results[k], "clarity") : k \in 1..3}) = 3
    /\ response.archetype_summary["clarity"][2] # 1

\* C8 (as claimed, for callers that supply pairwise distinct non-empty ids):
\* in every ComparisonResponse an answer without id is named answer_<its
\* zero-based input position>, an answer with an id keeps it, and no two
\* results have the same answer_id.
C8_UniqueAnswerIds ==
    LET supplied == {i \in 1..NumAnswers :
                        request.answers[i].id # None /\ request.answers[i].id[1] # ""}
    IN  (/\ ComparisonReturned
         /\ \A i, j \in supplied :
                i # j => request.answers[i].id # request.answers[j].id)
        =>
        LET rs == response.results
        IN  /\ \A k \in 1..Len(rs) :
                   IF (rs[k].index + 1) \in supplied
                   THEN rs[k].answer_id = InputOf(rs[k]).id[1]
                   ELSE rs[k].answer_id = "answer_" \o ToString(rs[k].index)
            /\ \A i, j \in 1..Len(rs) : i # j => rs[i].answer_id # rs[j].answer_id

\* C9 (as claimed): a scorer output outside [0,1] makes the comparison fail;
\* no ComparisonResponse is built from it.
C9_ScorerContractChecked ==
    (/\ pc = "done" /\ endpoint = "compare"
     /\ \E k \in 1..Len(raw_scores) :
            \/ Len(raw_scores[k]) # Len(Archetypes)
            \/ \E j \in 1..Len(raw_scores[k]) :
                   raw_scores[k][j] < 0 \/ raw_scores[k][j] > 100)
    => response.kind # "ComparisonResponse"

\* C10: in every ComparisonResponse, for every result and every archetype
\* score s of it: strengths has an entry for the archetype exactly when
\* s > 0.70, weaknesses has one exactly when s < 0.60, no archetype is in both
\* lists, and both lists follow the fixed archetype order.
C10_FeedbackThresholds ==
    ComparisonReturned =>
        \A k \in 1..Len(response.results) :
            LET r == response.results[k]
                InList(list, a) == \E e \in 1..Len(list) : list[e].archetype = a
                Ordered(list) ==
                    \A e, f \in 1..Len(list) :
                        e < f => ArchetypeIndex(list[e].archetype)
                                    < ArchetypeIndex(list[f].archetype)
            IN  /\ \A j \in 1..Len(r.archetype_scores) :
                       LET a == r.archetype_scores[j].archetype
                           s == r.archetype_scores[j].score
                       IN  /\ InList(r.strengths, a) <=> s > 70
                           /\ InList(r.weaknesses, a) <=> s < 60
                           /\ ~(InList(r.strengths, a) /\ InList(r.weaknesses, a))
                /\ Ordered(r.strengths)
                /\ Ordered(r.weaknesses)

\* one response with a score of exactly 0.70 and one of exactly 0.60 in
\* neither list, next to a named strength and a named weakness
C10_Witness ==
    /\ ComparisonReturned
    /\ \E k \in 1..Len(response.results) :
           LET r == response.results[k]
           IN  /\ r.archetype_scores[1].score = 70
               /\ r.strengths = <<>> /\ r.weaknesses = <<>>
    /\ \E k \in 1..Len(response.results) :
           LET r == response.results[k]
           IN  /\ r.archetype_scores[3].score = 60
               /\ r.archetype_scores[1].score = 58
               /\ Len(r.weaknesses) = 1
               /\ r.weaknesses[1].archetype = "clarity"
    /\ \E k \in 1..Len(response.results) : Len(response.results[k].strengths) = 5

====
